---- MODULE Spec2Model ----
(***************************************************************************)
(* Model of flopy.modflow.mf.Modflow.load (src/flopy/modflow/mf.py).       *)
(*                                                                         *)
(* One behaviour is one call of Modflow.load.  The inputs of the call (the *)
(* parsed name file, load_only, forgive) are chosen in Init.  The body of  *)
(* load is cut at the loader invocations: every action is one block of the *)
(* method, and the outcome of every loader invocation is chosen by the     *)
(* environment when the invocation happens.                                *)
(*                                                                         *)
(* A manifest entry is identified by its unit number (the key of           *)
(* ext_unit_dict); unit numbers are the positions 1..Len(nam) of the name  *)
(* file, and the file name of an entry is identified with its unit number. *)
(***************************************************************************)
EXTENDS Integers, Sequences, FiniteSets, TLC

\* Longest name file (number of entries) that Init draws.
MaxLen == 3
\* Longest load_only list that Init draws.
MaxReq == 1
\* Longest BAS6 file (number of lines) that InitSniff draws.
MaxLines == 3

\* Python's None for a unit number (unit numbers are positive).
None == 0

(***************************************************************************)
(* File types                                                              *)
(***************************************************************************)

\* The file types of the name files drawn by Init (ext_unit_dict holds them
\* in upper case).
FileTypes ==
    {"DIS", "DISU", "BAS6", "WEL", "PVAL", "LIST", "DATA", "DATA(BINARY)"}

\* The file types of the name files drawn for the version pass.
VersionFileTypes == {"DIS", "DISU", "BAS6", "NWT", "UPW", "GLO", "SMS"}

\* The default of the argument version, and the values drawn for it.
DefaultVersion == "mf2005"
Versions == {"mf2005", "mf2k", "mfusg"}

\* The lines BAS6 files are drawn from.
BasLines == {"# comment", "# FREE", "FREE", "free", "INTERNAL"}

\* line.startswith("#")
StartsWithHash(line) == line \in {"# comment", "# FREE"}

\* line.upper() on the lines of the model and on the empty string.
LineUpper(line) ==
    CASE line = "# comment" -> "# COMMENT"
      [] line = "free" -> "FREE"
      [] OTHER -> line

\* "FREE" in line, for an upper-cased line.
ContainsFREE(line) == line \in {"FREE", "# FREE"}

\* Python values that set_ifrefm is called with, as Python writes them.
Values == {"True", "False", "1", "0", "None", "'True'"}

\* isinstance(value, bool) that takes the integers 0 and 1 for booleans.
IsBoolOrBit(value) == value \in {"True", "False", "1", "0"}

\* isinstance(value, bool)
IsBool(value) == value \in {"True", "False"}

\* The strings load_only lists are drawn from.
RequestTypes == <<"BAS6", "DIS", "DISU", "LPF", "wel">>

\* str.lower() on the file types of the model.
Lower(s) ==
    CASE s = "DIS" -> "dis"
      [] s = "DISU" -> "disu"
      [] s = "BAS6" -> "bas6"
      [] s = "WEL" -> "wel"
      [] s = "PVAL" -> "pval"
      [] s = "ZONE" -> "zone"
      [] s = "MULT" -> "mult"
      [] s = "LPF" -> "lpf"
      [] s = "NWT" -> "nwt"
      [] s = "UPW" -> "upw"
      [] s = "SMS" -> "sms"
      [] s = "GLO" -> "glo"
      [] s = "LIST" -> "list"
      [] s = "DATA" -> "data"
      [] s = "DATA(BINARY)" -> "data(binary)"
      [] OTHER -> s

\* str.upper() on the strings of the model.
Upper(s) ==
    CASE s = "dis" -> "DIS"
      [] s = "disu" -> "DISU"
      [] s = "bas6" -> "BAS6"
      [] s = "wel" -> "WEL"
      [] s = "pval" -> "PVAL"
      [] s = "lpf" -> "LPF"
      [] OTHER -> s

\* The keys of ml.mfnam_packages.
mfnam_packages ==
    {"zone", "mult", "pval", "bas6", "dis", "disu", "bcf6", "lpf", "hfb6",
     "chd", "fhb", "wel", "mnw2", "mnwi", "drn", "rch", "evt", "ghb", "gmg",
     "lmt6", "lmt7", "riv", "str", "swi2", "pcg", "pcgn", "nwt", "pks", "sms",
     "sfr", "lak", "gage", "sip", "sor", "de4", "oc", "uzf", "upw", "sub",
     "swt", "hyd", "hob", "vdf", "vsc"}

\* item.package is not None: the name-file parser sets the package of an
\* entry whose file type is a key of mfnam_packages.
HasPackage(filetype) == Lower(filetype) \in mfnam_packages

\* "data" in item.filetype.lower()
HasData(filetype) == Lower(filetype) \in {"data", "data(binary)"}

\* HasBinary that takes every data file for binary.
HasBinaryAnyData(filetype) == HasData(filetype)

\* "binary" in item.filetype.lower()
HasBinary(filetype) == Lower(filetype) \in {"data(binary)"}

(***************************************************************************)
(* Sequences                                                               *)
(***************************************************************************)

\* x in list
InList(x, list) == \E i \in DOMAIN list : list[i] = x

\* Without that forgets to remove the element.
WithoutNoPop(list, x) == list

\* dict.pop(key) / list without the element x
Without(list, x) == SelectSeq(list, LAMBDA y : y # x)

\* Sequences over S of length at most n.
SeqUpTo(S, n) == UNION {[1..k -> S] : k \in 0..n}

\* The lines of a name file over the file types types: file type and
\* whether the line ends with REPLACE (drawn for the data files that are
\* not binary by their file type).
NamEntries(types) ==
    {e \in [filetype : types, replace : BOOLEAN] :
        e.replace => HasData(e.filetype) /\ ~HasBinary(e.filetype)}

VARIABLES
    nam,                       \* the name file: unit -> [filetype, replace]
    forgive,                   \* argument forgive
    version_arg,               \* argument version
    bas_lines,                 \* the lines of the file of the first BAS6 entry
    load_only_arg,             \* argument load_only: [none, list]
    load_only,                 \* local load_only (a list once pc = "par")
    pc,                        \* position in load
    version,                   \* ml.version
    structured,                \* ml.structured
    bas_pos,                   \* position of bas.filehandle (lines read)
    start,                     \* local start
    line,                      \* local line
    free_format_input,         \* ml.free_format_input
    array_free_format,         \* ml.array_free_format
    bas_ifrefm,                \* ifrefm of the BAS6 package
    value,                     \* argument of the last call of set_ifrefm
    ret,                       \* what the last call of set_ifrefm or
                               \* get_ifrefm returned
    op,                        \* the last call: "none", "set" or "get"
    ext_unit_dict,             \* keys of ext_unit_dict, in dictionary order
    dis_key,                   \* local dis_key
    bas_key,                   \* local bas_key
    files_succesfully_loaded,  \* local list (file names = units)
    files_not_loaded,          \* local list (file names = units)
    not_found,                 \* local not_found of the load_only check
    idx,                       \* position of the dispatch loop in ext_unit_dict
    load_fail,                 \* ml.load_fail
    packages,                  \* units whose package is attached to ml
    pop_key_list,              \* ml.pop_key_list
    external_units,            \* ml.external_units
    external_binflag,          \* ml.external_binflag
    calls,                     \* log of loader invocations
    takes_check,               \* units dispatched by the loop whose loader has
                               \* the parameter check
    err                        \* the error load raised, "none" if none

vars == <<nam, forgive, version_arg, bas_lines, load_only_arg, load_only, pc,
          version, structured, bas_pos, start, line, free_format_input,
          array_free_format, bas_ifrefm, value, ret, op, ext_unit_dict, dis_key,
          bas_key, files_succesfully_loaded, files_not_loaded, not_found, idx,
          load_fail, packages, pop_key_list, external_units, external_binflag,
          calls, takes_check, err>>

inputs == <<nam, forgive, version_arg, bas_lines, load_only_arg>>

\* What the passes before the loaders write.
prepass == <<version, structured, bas_pos, start, line, free_format_input>>

\* What set_ifrefm and get_ifrefm read and write.
freeformat == <<array_free_format, bas_ifrefm, value, ret, op>>

\* What load writes from the discretization loader on, pc apart.
loaded == <<load_only, ext_unit_dict, dis_key, bas_key,
            files_succesfully_loaded, files_not_loaded, not_found, idx,
            load_fail, packages, pop_key_list, external_units,
            external_binflag, calls, takes_check, err>>

\* Units of the name file.
Units == DOMAIN nam

\* Units of the name file that hold external data.
DataUnits == {k \in Units : HasData(nam[k].filetype)}

\* load_only lists: strictly increasing selections of RequestTypes.
RequestLists ==
    {[i \in DOMAIN s |-> RequestTypes[s[i]]] :
        s \in {t \in SeqUpTo(DOMAIN RequestTypes, MaxReq) :
                 \A i \in DOMAIN t : \A j \in DOMAIN t : i < j => t[i] < t[j]}}

\* One record of the invocation log: the unit whose loader was called,
\* whether check=False was passed, and whether the loader returned.
Call(key, check, ok) == [unit |-> key, check |-> check, ok |-> ok]

(***************************************************************************)
(* State after Modflow(...) and parsenamefile, up to the search for BAS6   *)
(* (the first BAS6 entry in dictionary order).                             *)
(***************************************************************************)
\* FirstOf that falls back to the first entry when no entry has the type.
FirstOfOrHead(types, dict) ==
    IF \E i \in DOMAIN dict : nam[dict[i]].filetype \in types
    THEN dict[CHOOSE i \in DOMAIN dict :
                /\ nam[dict[i]].filetype \in types
                /\ \A j \in 1..(i - 1) : nam[dict[j]].filetype \notin types]
    ELSE IF dict = <<>> THEN None ELSE dict[1]

\* FirstOf without the break: the last entry of the type wins.
LastOf(types, dict) ==
    IF \E i \in DOMAIN dict : nam[dict[i]].filetype \in types
    THEN dict[CHOOSE i \in DOMAIN dict :
                /\ nam[dict[i]].filetype \in types
                /\ \A j \in (i + 1)..Len(dict) :
                      nam[dict[j]].filetype \notin types]
    ELSE None

\* FirstOf that looks only for file types load_only names.
FirstOfRequested(types, dict) ==
    IF \E i \in DOMAIN dict :
          /\ nam[dict[i]].filetype \in types
          /\ \/ load_only_arg.none
             \/ \E j \in DOMAIN load_only_arg.list :
                   Upper(load_only_arg.list[j]) = nam[dict[i]].filetype
    THEN dict[CHOOSE i \in DOMAIN dict :
                /\ nam[dict[i]].filetype \in types
                /\ \A j \in 1..(i - 1) : nam[dict[j]].filetype \notin types]
    ELSE None

\* The first entry of dict, in dictionary order, whose file type is one of
\* types (the for loops with break); None when there is none.
FirstOf(types, dict) ==
    IF \E i \in DOMAIN dict : nam[dict[i]].filetype \in types
    THEN dict[CHOOSE i \in DOMAIN dict :
                /\ nam[dict[i]].filetype \in types
                /\ \A j \in 1..(i - 1) : nam[dict[j]].filetype \notin types]
    ELSE None

\* The state of load after Modflow(...) and parsenamefile, for the name
\* files namefiles, the values versions of the argument version, the values
\* requests of load_only, the BAS6 files files and the values ifrefms of
\* ifrefm in the BAS6 package.  parsenamefile has opened the file of every
\* entry: the handle is at the start of the file.
InitWith(namefiles, versions, requests, files, ifrefms) ==
    /\ nam \in namefiles
    /\ forgive \in BOOLEAN
    /\ version_arg \in versions
    /\ bas_lines \in IF \E k \in DOMAIN nam : nam[k].filetype = "BAS6"
                     THEN files ELSE {<<>>}
    /\ load_only_arg \in requests
    /\ load_only = load_only_arg.list
    /\ pc = "version"
    /\ version = version_arg
    /\ structured = TRUE
    /\ bas_pos = 0
    /\ start = 0
    /\ line = ""
    /\ free_format_input = FALSE
    /\ array_free_format = "True"
    /\ bas_ifrefm \in IF \E k \in DOMAIN nam : nam[k].filetype = "BAS6"
                      THEN ifrefms ELSE {"True"}
    /\ value = ""
    /\ ret = ""
    /\ op = "none"
    /\ ext_unit_dict = [i \in DOMAIN nam |-> i]
    /\ dis_key = None
    /\ bas_key = FirstOf({"BAS6"}, [i \in DOMAIN nam |-> i])
    /\ files_succesfully_loaded = <<>>
    /\ files_not_loaded = <<>>
    /\ not_found = <<>>
    /\ idx = 1
    /\ load_fail = FALSE
    /\ packages = {}
    /\ pop_key_list = <<>>
    /\ external_units = <<>>
    /\ external_binflag = <<>>
    /\ calls = <<>>
    /\ takes_check = {}
    /\ err = "none"

\* The values of load_only: None, or a list of RequestLists.
LoadOnlyNone == [none |-> TRUE, list |-> <<>>]
LoadOnlyArgs ==
    {LoadOnlyNone} \cup {[none |-> FALSE, list |-> l] : l \in RequestLists}

\* The name files over the file types types.
Namefiles(types) == SeqUpTo(NamEntries(types), MaxLen)

\* The BAS6 file of the loads that Init draws.
DefaultBas == <<"# comment", "FREE">>

Init ==
    InitWith(Namefiles(FileTypes), {DefaultVersion}, LoadOnlyArgs,
             {DefaultBas}, {"True"})

\* Calls of load on name files with the entries that tell the version.
InitVersion ==
    InitWith(Namefiles(VersionFileTypes), Versions, {LoadOnlyNone},
             {DefaultBas}, {"True"})

\* Calls of load on name files without and with BAS6, for every BAS6 file
\* of at most MaxLines lines.
Entry(filetype) == [filetype |-> filetype, replace |-> FALSE]
SniffNamefiles ==
    {<<Entry("DIS")>>, <<Entry("DIS"), Entry("BAS6")>>,
     <<Entry("BAS6"), Entry("DIS"), Entry("WEL")>>}
InitSniff ==
    InitWith(SniffNamefiles, {DefaultVersion}, {LoadOnlyNone},
             SeqUpTo(BasLines, MaxLines), {"True"})

\* Calls of load on name files without and with BAS6, the BAS6 package
\* coming with either value of ifrefm.
InitIfrefm ==
    InitWith(SniffNamefiles, {DefaultVersion}, {LoadOnlyNone}, {DefaultBas},
             {"True", "False"})

(***************************************************************************)
(* reset version based on packages in the name file; update the modflow    *)
(* version.                                                                *)
(***************************************************************************)
\* The pass over ext_unit_dict that keeps the first version it finds.
RECURSIVE ResetVersionFirstWins(_, _, _, _)
ResetVersionFirstWins(dict, i, v, s) ==
    IF i > Len(dict) THEN <<v, s>>
    ELSE LET filetype == nam[dict[i]].filetype IN
         IF filetype \in {"NWT", "UPW"} THEN <<"mfnwt", s>>
         ELSE IF filetype = "GLO" THEN <<"mf2k", s>>
         ELSE IF filetype = "SMS" THEN <<"mfusg", s>>
         ELSE IF filetype = "DISU" THEN <<"mfusg", FALSE>>
         ELSE ResetVersionFirstWins(dict, i + 1, v, s)

\* The for loop over ext_unit_dict from entry i on, with the local version
\* v and ml.structured s: every entry that tells a version overwrites v.
RECURSIVE ResetVersion(_, _, _, _)
ResetVersion(dict, i, v, s) ==
    IF i > Len(dict) THEN <<v, s>>
    ELSE LET filetype == nam[dict[i]].filetype IN
         IF filetype \in {"NWT", "UPW"}
         THEN ResetVersion(dict, i + 1, "mfnwt", s)
         ELSE IF filetype = "GLO"
         THEN ResetVersion(dict, i + 1, "mf2k", s)
         ELSE IF filetype = "SMS"
         THEN ResetVersion(dict, i + 1, "mfusg", s)
         ELSE IF filetype = "DISU"
         THEN ResetVersion(dict, i + 1, "mfusg", FALSE)
         ELSE ResetVersion(dict, i + 1, v, s)

\* ml.set_version(version) with the outcome of the pass.
SetVersion ==
    /\ pc = "version"
    /\ LET res == ResetVersion(ext_unit_dict, 1, version_arg, structured)
       IN version' = res[1] /\ structured' = res[2]
    /\ pc' = IF bas_key # None THEN "sniff" ELSE "dis"
    /\ UNCHANGED <<inputs, loaded, freeformat, bas_pos, start, line, free_format_input>>

(***************************************************************************)
(* look for the free format flag in bas6                                   *)
(***************************************************************************)
\* filehandle.readline() at position pos: the line read ("" at the end of
\* the file) and the position after it.
ReadLine(lines, pos) == IF pos < Len(lines) THEN lines[pos + 1] ELSE ""
AfterReadLine(lines, pos) == IF pos < Len(lines) THEN pos + 1 ELSE pos

\* The sniff that leaves the handle where the reads took it.
SeekNowhere(pos, offset) == pos

\* filehandle.seek(offset) of a handle at position pos.
Seek(pos, offset) == offset

\* start = bas.filehandle.tell(); line = bas.filehandle.readline()
SniffStart ==
    /\ pc = "sniff"
    /\ start' = bas_pos
    /\ line' = ReadLine(bas_lines, bas_pos)
    /\ bas_pos' = AfterReadLine(bas_lines, bas_pos)
    /\ pc' = "skip"
    /\ UNCHANGED <<inputs, loaded, freeformat, version, structured, free_format_input>>

\* One iteration of while line.startswith("#").
SniffSkip ==
    /\ pc = "skip"
    /\ StartsWithHash(line)
    /\ line' = ReadLine(bas_lines, bas_pos)
    /\ bas_pos' = AfterReadLine(bas_lines, bas_pos)
    /\ UNCHANGED <<inputs, loaded, freeformat, pc, version, structured, start,
                   free_format_input>>

\* The exit of the while loop, the test for FREE, and the seek.
SniffEnd ==
    /\ pc = "skip"
    /\ ~StartsWithHash(line)
    /\ free_format_input' =
          IF ContainsFREE(LineUpper(line)) THEN TRUE ELSE free_format_input
    /\ bas_pos' = Seek(bas_pos, start)
    /\ pc' = "dis"
    /\ UNCHANGED <<inputs, loaded, freeformat, version, structured, start, line>>

\* Raise that swallows the error and goes on.
RaiseSwallowed(e) ==
    /\ pc' = "par"
    /\ err' = err

\* raise: load ends with the error e and returns nothing.
Raise(e) ==
    /\ pc' = "raised"
    /\ err' = e

(***************************************************************************)
(* load dis: the first DIS or DISU entry is loaded with check=False.  With *)
(* no such entry disnamdata is None and disnamdata.package raises; a       *)
(* failure of the loader is raised in both modes.                          *)
(***************************************************************************)
LoadDis ==
    /\ pc = "dis"
    /\ LET key == FirstOf({"DIS", "DISU"}, ext_unit_dict) IN
       /\ dis_key' = key
       /\ IF key = None
          THEN /\ Raise("no_discretization")
               /\ UNCHANGED <<calls, files_succesfully_loaded, ext_unit_dict,
                              packages>>
          ELSE \E ok \in BOOLEAN :
                 /\ calls' = Append(calls, Call(key, TRUE, ok))
                 /\ IF ok
                    THEN /\ files_succesfully_loaded' =
                               Append(files_succesfully_loaded, key)
                         /\ ext_unit_dict' = Without(ext_unit_dict, key)
                         /\ packages' = packages \cup {key}
                         /\ pc' = "bas"
                         /\ err' = err
                    ELSE /\ Raise("dis_failed")
                         /\ UNCHANGED <<files_succesfully_loaded,
                                        ext_unit_dict, packages>>
    /\ UNCHANGED <<inputs, prepass, freeformat, takes_check, load_only, bas_key, files_not_loaded, not_found,
                   idx, load_fail, pop_key_list, external_units,
                   external_binflag>>

(***************************************************************************)
(* load bas after dis if it is available; a failure of the loader is       *)
(* raised in both modes.                                                   *)
(***************************************************************************)
LoadBas ==
    /\ pc = "bas"
    /\ IF bas_key = None
       THEN /\ pc' = "load_only"
            /\ UNCHANGED <<calls, files_succesfully_loaded, ext_unit_dict,
                           packages, err>>
       ELSE \E ok \in BOOLEAN :
              /\ calls' = Append(calls, Call(bas_key, TRUE, ok))
              /\ IF ok
                 THEN /\ files_succesfully_loaded' =
                            Append(files_succesfully_loaded, bas_key)
                      /\ ext_unit_dict' = Without(ext_unit_dict, bas_key)
                      /\ packages' = packages \cup {bas_key}
                      /\ pc' = "load_only"
                      /\ err' = err
                 ELSE /\ Raise("bas_failed")
                      /\ UNCHANGED <<files_succesfully_loaded, ext_unit_dict,
                                     packages>>
    /\ UNCHANGED <<inputs, prepass, freeformat, takes_check, load_only, dis_key, bas_key, files_not_loaded,
                   not_found, idx, load_fail, pop_key_list, external_units,
                   external_binflag>>

(***************************************************************************)
(* The load_only check.  None becomes the list of the file types that are  *)
(* left in ext_unit_dict; a given list is upper-cased in place, except for *)
(* DIS and BAS6, and every other requested type that no remaining entry    *)
(* has is collected in not_found.                                          *)
(***************************************************************************)
Exempt(filetype) == filetype = "DIS" \/ filetype = "BAS6"

NormalizedLoadOnly(list) ==
    [i \in DOMAIN list |->
        IF Exempt(Upper(list[i])) THEN list[i] ELSE Upper(list[i])]

\* Found with found initialised to True.
FoundAlways(filetype, dict) == TRUE

Found(filetype, dict) ==
    \E i \in DOMAIN dict : nam[dict[i]].filetype = filetype

NotFound(list, dict) ==
    SelectSeq([i \in DOMAIN list |-> Upper(list[i])],
              LAMBDA t : ~Exempt(t) /\ ~Found(t, dict))

CheckLoadOnly ==
    /\ pc = "load_only"
    /\ IF load_only_arg.none
       THEN /\ load_only' =
                 [i \in DOMAIN ext_unit_dict |-> nam[ext_unit_dict[i]].filetype]
            /\ pc' = "par"
            /\ UNCHANGED <<not_found, err>>
       ELSE /\ load_only' = NormalizedLoadOnly(load_only)
            /\ not_found' = NotFound(load_only, ext_unit_dict)
            /\ IF Len(NotFound(load_only, ext_unit_dict)) > 0
               THEN Raise("load_only_not_found")
               ELSE pc' = "par" /\ err' = err
    /\ UNCHANGED <<inputs, prepass, freeformat, takes_check, ext_unit_dict, dis_key, bas_key,
                   files_succesfully_loaded, files_not_loaded, idx, load_fail,
                   packages, pop_key_list, external_units, external_binflag,
                   calls>>

(***************************************************************************)
(* zone, mult, pval: ml.mfpar.set_pval, set_zone and set_mult.  mfpar.py   *)
(* is not part of the sources at hand.  The specification knows no         *)
(* parameter pass: it has the PVAL, ZONE and MULT entries loaded by the    *)
(* dispatch loop like every other registered entry (they are keys of       *)
(* mfnam_packages), so the three calls leave the state of load unchanged.  *)
(***************************************************************************)
SetPar ==
    /\ pc = "par"
    /\ pc' = "loop"
    /\ UNCHANGED <<inputs, prepass, freeformat, takes_check, load_only, ext_unit_dict, dis_key, bas_key,
                   files_succesfully_loaded, files_not_loaded, not_found, idx,
                   load_fail, packages, pop_key_list, external_units,
                   external_binflag, calls, err>>

(***************************************************************************)
(* try loading packages in ext_unit_dict: one iteration of the loop.       *)
(***************************************************************************)

\* Selected without the load_only filter.
SelectedIgnoringList(filetype, list) == filetype # "DIS"

\* The entry is dispatched to its loader.
Selected(filetype, list) == InList(filetype, list) /\ filetype # "DIS"

\* ml.add_pop_key_list(key), called by a loader for a unit it claims.
AddPopKey(list, key) ==
    IF key = None \/ InList(key, list) THEN list ELSE Append(list, key)

\* Outcomes of the strict branch: one call without check (the test
\* "check" in inspect.getargspec(load) compares the string with the four
\* fields of the ArgSpec tuple, none of which is the string "check").
StrictOutcomes == {"ok", "fail"}

\* Outcomes of the forgiving branch: the call with check=False returns,
\* raises an error that is no TypeError, or raises TypeError, after which the
\* call without check returns or raises.  The TypeError comes from the call
\* itself when load has no parameter check (te) or from inside a loader
\* that has the parameter (ite).
ForgiveOutcomes == {"ok", "fail", "te_ok", "te_fail", "ite_ok", "ite_fail"}

\* except TypeError: the call without check follows every TypeError.
Retries(r) == r \in {"te_ok", "te_fail", "ite_ok", "ite_fail"}

\* The loader took check=False: it returned or failed inside.
TookCheck(strict, r) ==
    ~strict /\ r \in {"ok", "fail", "ite_ok", "ite_fail"}

\* Whether the loader dispatched has the parameter check: the outcome of the
\* call with check=False tells it; the strict branch never passes check, so
\* there the loader may or may not have it.
HasCheck(strict, r) == IF strict THEN BOOLEAN ELSE {TookCheck(strict, r)}

\* The loader invocations of one dispatch, by outcome.
DispatchCalls(key, strict, r) ==
    IF strict THEN <<Call(key, FALSE, r = "ok")>>
    ELSE IF ~Retries(r) THEN <<Call(key, TRUE, r = "ok")>>
    ELSE <<Call(key, TRUE, FALSE), Call(key, FALSE, r \in {"te_ok", "ite_ok"})>>

Succeeds(r) == r \in {"ok", "te_ok", "ite_ok"}

\* Propagates without the try of the forgiving branch.
PropagatesAlways(strict, r) == ~Succeeds(r)

\* Propagates with the forgiving try around the strict branch as well.
PropagatesNever(strict, r) == FALSE

\* Strict branch: a loader error propagates out of load.
\* Forgiving branch: except BaseException records the failure.
Propagates(strict, r) == strict /\ ~Succeeds(r)

\* The except branch that appends the file name twice.
RecordFailureTwice(list, key) == Append(Append(list, key), key)

\* The except branch without files_not_loaded.append.
RecordFailureDropped(list, key) == list

\* files_not_loaded.append(item.filename) of the except branch.
RecordFailure(list, key) == Append(list, key)

DispatchEntry ==
    /\ pc = "loop"
    /\ idx <= Len(ext_unit_dict)
    /\ LET key == ext_unit_dict[idx]
           filetype == nam[key].filetype
       IN
       IF HasPackage(filetype)
       THEN IF Selected(filetype, load_only)
            THEN \E r \in IF forgive THEN ForgiveOutcomes ELSE StrictOutcomes :
                 \E claimed \in {None} \cup DataUnits :
                   /\ Succeeds(r) \/ claimed = None
                   /\ calls' = calls \o DispatchCalls(key, ~forgive, r)
                   /\ \E has \in HasCheck(~forgive, r) :
                         takes_check' = IF has THEN takes_check \cup {key}
                                        ELSE takes_check
                   /\ IF Succeeds(r)
                      THEN /\ files_succesfully_loaded' =
                                 Append(files_succesfully_loaded, key)
                           /\ packages' = packages \cup {key}
                           /\ pop_key_list' = AddPopKey(pop_key_list, claimed)
                           /\ idx' = idx + 1
                           /\ UNCHANGED <<pc, err, load_fail, files_not_loaded>>
                      ELSE IF Propagates(~forgive, r)
                      THEN /\ Raise("package_failed")
                           /\ UNCHANGED <<files_succesfully_loaded, packages,
                                          pop_key_list, idx, load_fail,
                                          files_not_loaded>>
                      ELSE /\ load_fail' = TRUE
                           /\ files_not_loaded' =
                                 RecordFailure(files_not_loaded, key)
                           /\ idx' = idx + 1
                           /\ UNCHANGED <<pc, err, files_succesfully_loaded,
                                          packages, pop_key_list>>
                   /\ UNCHANGED <<external_units, external_binflag>>
            ELSE /\ files_not_loaded' = Append(files_not_loaded, key)
                 /\ idx' = idx + 1
                 /\ UNCHANGED <<pc, err, calls, files_succesfully_loaded,
                                packages, pop_key_list, load_fail,
                                external_units, external_binflag,
                                takes_check>>
       ELSE IF ~HasData(filetype)
       THEN /\ files_not_loaded' = Append(files_not_loaded, key)
            /\ idx' = idx + 1
            /\ UNCHANGED <<pc, err, calls, files_succesfully_loaded, packages,
                           pop_key_list, load_fail, external_units,
                           external_binflag, takes_check>>
       ELSE /\ IF ~InList(key, pop_key_list) /\ ~InList(key, external_units)
               THEN /\ external_units' = Append(external_units, key)
                    /\ external_binflag' =
                          Append(external_binflag, HasBinary(filetype))
               ELSE UNCHANGED <<external_units, external_binflag>>
            /\ idx' = idx + 1
            /\ UNCHANGED <<pc, err, calls, files_succesfully_loaded, packages,
                           pop_key_list, load_fail, files_not_loaded,
                           takes_check>>
    /\ UNCHANGED <<inputs, prepass, freeformat, load_only, ext_unit_dict, dis_key, bas_key,
                   not_found>>

(***************************************************************************)
(* pop binary output keys and any external file units that are now         *)
(* internal; then load returns ml.                                         *)
(***************************************************************************)

\* ml.remove_external(unit=key) on the parallel lists of external files.
RemoveExternal(units, key) == Without(units, key)

RemoveExternalFlag(units, flags, key) ==
    LET keep == {i \in DOMAIN units : units[i] # key}
        pos(n) == CHOOSE i \in keep : Cardinality({j \in keep : j <= i}) = n
    IN [n \in 1..Cardinality(keep) |-> flags[pos(n)]]

\* The cleanup that removes nothing.
PopAllNothing(list, dict, units, flags) == <<dict, units, flags>>

\* PopAll in which removing a unit that has no external binding is an error:
\* the except branch is taken and ext_unit_dict.pop(key) is not reached.
RECURSIVE PopAllSkipAbsent(_, _, _, _)
PopAllSkipAbsent(list, dict, units, flags) ==
    IF list = <<>> THEN <<dict, units, flags>>
    ELSE PopAllSkipAbsent(Tail(list),
                          IF InList(Head(list), units)
                          THEN Without(dict, Head(list)) ELSE dict,
                          RemoveExternal(units, Head(list)),
                          RemoveExternalFlag(units, flags, Head(list)))

\* The for loop over ml.pop_key_list: remove_external, then
\* ext_unit_dict.pop(key); a key that is in neither changes nothing.
RECURSIVE PopAll(_, _, _, _)
PopAll(list, dict, units, flags) ==
    IF list = <<>> THEN <<dict, units, flags>>
    ELSE PopAll(Tail(list), Without(dict, Head(list)),
                RemoveExternal(units, Head(list)),
                RemoveExternalFlag(units, flags, Head(list)))

PopKeys ==
    /\ pc = "loop"
    /\ idx > Len(ext_unit_dict)
    /\ LET res == PopAll(pop_key_list, ext_unit_dict, external_units,
                         external_binflag)
       IN /\ ext_unit_dict' = res[1]
          /\ external_units' = res[2]
          /\ external_binflag' = res[3]
    /\ pc' = "done"
    /\ UNCHANGED <<inputs, prepass, freeformat, takes_check, load_only, dis_key, bas_key,
                   files_succesfully_loaded, files_not_loaded, not_found, idx,
                   load_fail, packages, pop_key_list, calls, err>>

(***************************************************************************)
(* get_ifrefm and set_ifrefm, called on the model that load has returned.  *)
(***************************************************************************)
\* bas = self.get_package('BAS6'); if (bas)
HasBas == \E k \in packages : nam[k].filetype = "BAS6"

get_ifrefm == IF HasBas THEN bas_ifrefm ELSE "False"

\* set_ifrefm that does not write to the BAS6 package.
BasIfrefmKept(has, old, v) == old

\* bas.ifrefm after set_ifrefm(v) that has passed the isinstance test.
BasIfrefmSet(has, old, v) == IF has THEN v ELSE old

GetIfrefm ==
    /\ pc = "done"
    /\ op' = "get"
    /\ ret' = get_ifrefm
    /\ UNCHANGED <<inputs, prepass, loaded, pc, array_free_format, bas_ifrefm,
                   value>>

SetIfrefm ==
    /\ pc = "done"
    /\ \E v \in Values :
          /\ value' = v
          /\ op' = "set"
          /\ IF ~IsBool(v)
             THEN /\ ret' = "False"
                  /\ UNCHANGED <<array_free_format, bas_ifrefm>>
             ELSE /\ array_free_format' = v
                  /\ bas_ifrefm' = BasIfrefmSet(HasBas, bas_ifrefm, v)
                  /\ ret' = IF HasBas THEN "None" ELSE "False"
    /\ UNCHANGED <<inputs, prepass, loaded, pc>>

Next ==
    \/ SetVersion
    \/ SniffStart
    \/ SniffSkip
    \/ SniffEnd
    \/ LoadDis
    \/ LoadBas
    \/ CheckLoadOnly
    \/ SetPar
    \/ DispatchEntry
    \/ PopKeys

Spec == Init /\ [][Next]_vars

SpecVersion == InitVersion /\ [][Next]_vars

\* load, and then calls of get_ifrefm and set_ifrefm on the model returned.
NextModel ==
    \/ Next
    \/ GetIfrefm
    \/ SetIfrefm

SpecIfrefm == InitIfrefm /\ [][NextModel]_vars

\* load runs to its end: a block of the method that can run does run.
SpecSniff == InitSniff /\ [][Next]_vars /\ WF_vars(Next)

(***************************************************************************)
(* Vocabulary of the properties                                            *)
(***************************************************************************)
Done == pc = "done"

\* The positions of load up to the search for the discretization entry.
BeforeLoaders == {"version", "sniff", "skip", "dis"}
Raised == pc = "raised"

\* Units of the discretization entries of the name file.
DisUnits == {k \in Units : nam[k].filetype \in {"DIS", "DISU"}}
BasUnits == {k \in Units : nam[k].filetype = "BAS6"}

\* The first discretization and the first BAS6 entry in name-file order.
FirstDisUnit == CHOOSE k \in DisUnits : \A j \in DisUnits : k <= j
FirstBasUnit == CHOOSE k \in BasUnits : \A j \in BasUnits : k <= j

\* Number of structural loader invocations of a load that gets past them.
NStructural == IF BasUnits = {} THEN 1 ELSE 2

\* The unit is the structural entry load picked (discretization or BAS6).
Structural(k) == k # None /\ (k = dis_key \/ k = bas_key)

StructuralCallsOk ==
    \A i \in DOMAIN calls : Structural(calls[i].unit) => calls[i].ok

Called(k) == \E i \in DOMAIN calls : calls[i].unit = k

\* The last invocation of the loader of unit k failed.
FinalFailed(k) ==
    \E i \in DOMAIN calls :
       /\ calls[i].unit = k
       /\ ~calls[i].ok
       /\ \A j \in DOMAIN calls : j > i => calls[j].unit # k

Elements(list) == {list[i] : i \in DOMAIN list}

\* The requested file types, upper-cased, and those of them that no entry of
\* the name file has.
RequestedTypes == {Upper(t) : t \in Elements(load_only_arg.list)}
ManifestTypes == {nam[k].filetype : k \in Units}
MissingRequested == RequestedTypes \ ManifestTypes

(***************************************************************************)
(* C1                                                                      *)
(***************************************************************************)

\* C1: with forgive=True and a name file with exactly one discretization
\* entry, whatever the loaders of the non-structural entries do (PVAL among
\* them), no failure of theirs makes load raise: when the discretization and
\* BAS6 loaders have returned, the only error load can end with is the one
\* of the load_only check, and the model load returns holds the
\* discretization package.
C1_ForgivingLoadReturnsModel ==
    (forgive /\ Cardinality(DisUnits) = 1 /\ StructuralCallsOk)
    => /\ Raised => err = "load_only_not_found"
       /\ Done => dis_key \in DisUnits /\ dis_key \in packages

C1_Witness ==
    /\ Done
    /\ forgive
    /\ Cardinality(DisUnits) = 1
    /\ dis_key \in packages
    /\ \E k \in Units :
          nam[k].filetype = "PVAL" /\ FinalFailed(k) /\ ~Structural(k)

(***************************************************************************)
(* C2                                                                      *)
(***************************************************************************)

\* C2: with no DIS and no DISU entry in the name file, load raises the
\* missing-discretization error before it invokes any loader, in both modes:
\* it never returns a model and no loader is invoked.
C2_MissingDiscretizationRaises ==
    DisUnits = {}
    => /\ pc \in BeforeLoaders \cup {"raised"}
       /\ Raised => err = "no_discretization" /\ calls = <<>> /\ packages = {}

C2_Witness ==
    /\ Raised
    /\ DisUnits = {}
    /\ ~forgive
    /\ BasUnits # {}
    /\ err = "no_discretization"

(***************************************************************************)
(* C3                                                                      *)
(***************************************************************************)

\* C3 as claimed: with a requested file type that no entry of the name file
\* has, load raises the load_only error and nothing else, and no loader at
\* all has been invoked when it is raised.
C3_Original ==
    (~load_only_arg.none /\ MissingRequested # {})
    => /\ ~Done
       /\ Raised => err = "load_only_not_found" /\ calls = <<>>

\* C3: with a requested file type that no entry of the name file has, the
\* load_only error is raised after the structural loaders and before every
\* other loader: when it is raised the invocation log holds exactly the
\* successful call of the discretization loader and, when the name file has
\* a BAS6 entry, the successful call of the BAS6 loader.  When the missing
\* type is not DIS or BAS6, load never gets past the check, invokes no loader
\* of a non-structural entry, and, when the structural loaders return, ends
\* with the load_only error.
C3_RaisedAfterStructuralLoaders ==
    (~load_only_arg.none /\ MissingRequested # {})
    => /\ err = "load_only_not_found"
          => /\ Len(calls) = NStructural
             /\ calls[1] = Call(FirstDisUnit, TRUE, TRUE)
             /\ BasUnits # {} => calls[2] = Call(FirstBasUnit, TRUE, TRUE)
       /\ MissingRequested \ {"DIS", "BAS6"} # {}
          => /\ pc \in BeforeLoaders \cup {"bas", "load_only", "raised"}
             /\ \A i \in DOMAIN calls : Structural(calls[i].unit)
             /\ (Raised /\ DisUnits # {} /\ StructuralCallsOk)
                => err = "load_only_not_found"

C3_Witness ==
    /\ Raised
    /\ err = "load_only_not_found"
    /\ Len(calls) = 2
    /\ "LPF" \in MissingRequested
    /\ \E k \in Units : nam[k].filetype = "WEL" /\ ~Called(k)

(***************************************************************************)
(* C4                                                                      *)
(***************************************************************************)

\* C4: with a non-empty load_only list and a requested file type that no
\* entry of the name file has, load fails, and the load_only error names
\* exactly the requested types that are missing from the name file (DIS and
\* BAS6 included).
C4_ErrorNamesMissingTypes ==
    (/\ ~load_only_arg.none
     /\ load_only_arg.list # <<>>
     /\ MissingRequested # {})
    => /\ ~Done
       /\ err = "load_only_not_found" => Elements(not_found) = MissingRequested

(***************************************************************************)
(* C5                                                                      *)
(***************************************************************************)

\* C5: with forgive=True, once the loader of a non-structural entry has
\* failed, the entry is in files_not_loaded, load_fail is set and load has
\* not raised; every package of a successful loader is attached; and when
\* load returns, every entry left after the structural ones has been
\* dispatched by its own file type alone: its loader has been invoked if and
\* only if the entry is registered and selected by load_only.
C5_ForgivingFailureIsRecorded ==
    forgive
    => /\ \A k \in Units :
            (~Structural(k) /\ FinalFailed(k))
            => InList(k, files_not_loaded) /\ load_fail /\ ~Raised
       /\ Elements(files_succesfully_loaded) \subseteq packages
       /\ Done
          => \A k \in Units :
                ~Structural(k)
                => (Called(k) <=>
                      /\ HasPackage(nam[k].filetype)
                      /\ Selected(nam[k].filetype, load_only))

C5_Witness ==
    /\ Done
    /\ forgive
    /\ load_fail
    /\ \E i \in DOMAIN calls : \E j \in DOMAIN calls : \E l \in DOMAIN calls :
          /\ i < j /\ j < l
          /\ calls[i].ok /\ calls[i].unit \in packages
          /\ ~calls[j].ok /\ ~Structural(calls[j].unit)
          /\ InList(calls[j].unit, files_not_loaded)
          /\ calls[l].ok /\ calls[l].unit # calls[j].unit

(***************************************************************************)
(* C6                                                                      *)
(***************************************************************************)

\* C6: with forgive=False a failed loader invocation is the last invocation
\* of the load, and load has raised: no model is returned and no loader is
\* invoked after the failing one.
C6_StrictFailureAborts ==
    ~forgive
    => \A i \in DOMAIN calls :
          ~calls[i].ok
          => /\ i = Len(calls)
             /\ Raised
             /\ err \in {"dis_failed", "bas_failed", "package_failed"}

C6_Witness ==
    /\ Raised
    /\ ~forgive
    /\ err = "package_failed"
    /\ idx < Len(ext_unit_dict)
    /\ \E i \in DOMAIN ext_unit_dict :
          /\ i > idx
          /\ HasPackage(nam[ext_unit_dict[i]].filetype)
          /\ Selected(nam[ext_unit_dict[i]].filetype, load_only)

(***************************************************************************)
(* C7                                                                      *)
(***************************************************************************)

\* C7: in both modes a failed invocation of the discretization loader or of
\* the BAS6 loader is the last invocation of the load, load has raised, and
\* the failure is not turned into load_fail or a files_not_loaded entry.
C7_StructuralFailureAborts ==
    \A i \in DOMAIN calls :
       (Structural(calls[i].unit) /\ ~calls[i].ok)
       => /\ i = Len(calls)
          /\ Raised
          /\ err = (IF calls[i].unit = dis_key
                    THEN "dis_failed" ELSE "bas_failed")
          /\ ~load_fail
          /\ files_not_loaded = <<>>

C7_Witness ==
    /\ Raised
    /\ forgive
    /\ err = "bas_failed"
    /\ Len(calls) = 2
    /\ \E k \in Units : nam[k].filetype = "WEL"

(***************************************************************************)
(* C8                                                                      *)
(***************************************************************************)

\* C8: the loader invocations of a load are, in this order: the loader of
\* the first discretization entry, the loader of the first BAS6 entry when
\* there is one, then loaders of other registered entries in name-file
\* order, and these only after the structural loaders have returned.
C8_LoadOrder ==
    /\ calls # <<>> => calls[1].unit = FirstDisUnit
    /\ (BasUnits # {} /\ Len(calls) >= 2) => calls[2].unit = FirstBasUnit
    /\ \A i \in DOMAIN calls :
          i > NStructural
          => /\ calls[i].unit # FirstDisUnit
             /\ BasUnits # {} => calls[i].unit # FirstBasUnit
             /\ HasPackage(nam[calls[i].unit].filetype)
             /\ \A j \in 1..NStructural : calls[j].ok
    /\ \A i \in DOMAIN calls : \A j \in DOMAIN calls :
          (NStructural < i /\ i < j) => calls[i].unit <= calls[j].unit

C8_Witness ==
    /\ Done
    /\ \E i \in DOMAIN calls : \E j \in DOMAIN calls :
          /\ NStructural < i /\ i < j
          /\ calls[i].unit < calls[j].unit
          /\ calls[j].unit < calls[1].unit

(***************************************************************************)
(* C9                                                                      *)
(***************************************************************************)

\* C9: when load returns, exactly one invocation of a discretization loader
\* (DIS or DISU) has happened.
C9_DiscretizationLoadedOnce ==
    Done => Cardinality({i \in DOMAIN calls : calls[i].unit \in DisUnits}) = 1

(***************************************************************************)
(* C10                                                                     *)
(***************************************************************************)

\* C10 as claimed: the unit of every successfully loaded entry is no key of
\* ext_unit_dict any more.
C10_Original ==
    \A k \in Elements(files_succesfully_loaded) : ~InList(k, ext_unit_dict)

\* C10: after a successful invocation of the discretization loader or of the
\* BAS6 loader, in both modes, the unit of the loaded entry is no key of
\* ext_unit_dict any more; so when load returns, ext_unit_dict holds no unit
\* of a successfully loaded structural entry.  The unit of an entry loaded by
\* the dispatch loop is not removed by its successful load: it is a key of
\* ext_unit_dict as long as the loop runs.
C10_StructuralUnitsPopped ==
    /\ \A i \in DOMAIN calls :
          (Structural(calls[i].unit) /\ calls[i].ok)
          => /\ ~InList(calls[i].unit, ext_unit_dict)
             /\ InList(calls[i].unit, files_succesfully_loaded)
    /\ pc = "loop"
       => \A k \in Elements(files_succesfully_loaded) :
             ~Structural(k) => InList(k, ext_unit_dict)

C10_Witness ==
    /\ Done
    /\ dis_key # None /\ ~InList(dis_key, ext_unit_dict)
    /\ bas_key # None /\ ~InList(bas_key, ext_unit_dict)
    /\ \E k \in Elements(files_succesfully_loaded) : InList(k, ext_unit_dict)

(***************************************************************************)
(* C11                                                                     *)
(***************************************************************************)

\* The unit is the first discretization or the first BAS6 entry.
StructuralEntry(k) ==
    \/ DisUnits # {} /\ k = FirstDisUnit
    \/ BasUnits # {} /\ k = FirstBasUnit

\* The file type of the registered entry k is not in the given load_only.
Excluded(k) ==
    /\ HasPackage(nam[k].filetype)
    /\ ~load_only_arg.none
    /\ nam[k].filetype \notin RequestedTypes

\* C11 as claimed: the loader of no registered entry whose file type load_only
\* excludes is ever invoked, and the entry ends in files_not_loaded.
C11_Original ==
    \A k \in Units :
       Excluded(k)
       => /\ ~Called(k)
          /\ Done => InList(k, files_not_loaded)

\* C11: for every registered entry other than the first discretization entry
\* and the first BAS6 entry whose file type load_only excludes, the loader is
\* never invoked, no package is attached for it, and when load returns the
\* entry is in files_not_loaded exactly once; skipping sets no load_fail:
\* load_fail is set only when a loader invocation has failed.
C11_ExcludedEntriesSkipped ==
    /\ \A k \in Units :
          (Excluded(k) /\ ~StructuralEntry(k))
          => /\ ~Called(k)
             /\ k \notin packages
             /\ ~InList(k, files_succesfully_loaded)
             /\ Done => Cardinality({i \in DOMAIN files_not_loaded :
                                       files_not_loaded[i] = k}) = 1
    /\ load_fail => \E k \in Units : FinalFailed(k)

C11_Witness ==
    /\ Done
    /\ ~load_fail
    /\ Len(calls) >= 2
    /\ \E k \in Units :
          /\ Excluded(k) /\ ~StructuralEntry(k)
          /\ InList(k, files_not_loaded)

(***************************************************************************)
(* Entries without a registered package.                                   *)
(***************************************************************************)
\* The positions of the external lists that bind unit k.
Bindings(k) == {i \in DOMAIN external_units : external_units[i] = k}

\* The file type of unit k is the binary data tag.
BinaryTag(k) == nam[k].filetype = "DATA(BINARY)"

\* C12 as stated: when load has returned, every data entry has exactly one
\* external binding, binary when the tag is binary or the line carries
\* REPLACE, and every other entry without package is in files_not_loaded
\* and has no binding.  The dispatch loop violates it.
C12_Original ==
    Done =>
      \A k \in Units :
         ~HasPackage(nam[k].filetype)
         => IF HasData(nam[k].filetype)
            THEN /\ Cardinality(Bindings(k)) = 1
                 /\ \A i \in Bindings(k) :
                       external_binflag[i] =
                          (BinaryTag(k) \/ nam[k].replace)
            ELSE InList(k, files_not_loaded) /\ Bindings(k) = {}

\* C12: an entry without registered package is never attached as a package.
\* When load has returned, a data entry that no loader put on pop_key_list
\* has exactly one external binding, whose binary flag is true exactly when
\* the file type contains "binary", with or without REPLACE; a data entry on
\* pop_key_list has no binding; every other entry without package is once
\* in files_not_loaded and has no binding.
C12_UnclaimedEntriesClassified ==
    /\ Len(external_binflag) = Len(external_units)
    /\ \A k \in Units :
          ~HasPackage(nam[k].filetype)
          => /\ k \notin packages
             /\ ~Called(k)
             /\ Done =>
                  IF HasData(nam[k].filetype)
                  THEN /\ ~InList(k, files_not_loaded)
                       /\ IF InList(k, pop_key_list)
                          THEN Bindings(k) = {}
                          ELSE /\ Cardinality(Bindings(k)) = 1
                               /\ \A i \in Bindings(k) :
                                     external_binflag[i] = BinaryTag(k)
                  ELSE /\ Cardinality({i \in DOMAIN files_not_loaded :
                                          files_not_loaded[i] = k}) = 1
                       /\ Bindings(k) = {}

\* load has returned with a REPLACE data entry bound as text and an
\* unregistered entry that is no data file.
C12_Witness ==
    /\ Done
    /\ \E k \in Units :
          /\ nam[k].filetype = "DATA" /\ nam[k].replace
          /\ \E i \in Bindings(k) : ~external_binflag[i]
    /\ \E k \in Units :
          nam[k].filetype = "LIST" /\ InList(k, files_not_loaded)

(***************************************************************************)
(* The cleanup pass over pop_key_list.                                     *)
(***************************************************************************)
\* C13: when load has returned, no unit of pop_key_list is left in the
\* external lists or in ext_unit_dict, whether or not the unit had an
\* external binding when the cleanup reached it; running the cleanup once
\* more changes neither the external lists nor ext_unit_dict; the cleanup
\* takes nothing else away: a data unit that is not on pop_key_list keeps
\* its entry and its binding.
C13_CleanupRemovesClaimedHandles ==
    Done =>
      /\ \A k \in Elements(pop_key_list) :
            ~InList(k, ext_unit_dict) /\ Bindings(k) = {}
      /\ PopAll(pop_key_list, ext_unit_dict, external_units, external_binflag)
            = <<ext_unit_dict, external_units, external_binflag>>
      /\ Len(external_binflag) = Len(external_units)
      /\ \A k \in DataUnits \ Elements(pop_key_list) :
            InList(k, ext_unit_dict) /\ Bindings(k) # {}

\* load has returned and a unit of pop_key_list was claimed before the
\* dispatch loop reached its entry, so that it never had a binding: every
\* loader invocation was for an earlier entry.
C13_Witness ==
    /\ Done
    /\ \E k \in Elements(pop_key_list) :
          \A i \in DOMAIN calls : calls[i].unit < k

\* C14: when load has returned, no unit of the external lists is a unit
\* whose loader was invoked or a unit of pop_key_list, and every unit of the
\* external lists and every unit attached as a package is a unit of the
\* name file.
C14_ExternalAndClaimedDisjoint ==
    Done =>
      /\ \A k \in Elements(external_units) :
            ~Called(k) /\ ~InList(k, pop_key_list) /\ k \notin packages
      /\ Elements(external_units) \cup packages \subseteq Units

\* load has returned and a unit of pop_key_list was claimed after the
\* dispatch loop had bound it: its entry precedes that of a loader that was
\* invoked.
C14_Witness ==
    /\ Done
    /\ \E k \in Elements(pop_key_list) :
          \E i \in DOMAIN calls : calls[i].unit > k

(***************************************************************************)
(* load_only and the structural entries.                                   *)
(***************************************************************************)
\* load is past the discretization loader / past the BAS6 step.
PastDis == pc \notin BeforeLoaders /\ err # "no_discretization"
PastBas == PastDis /\ err # "dis_failed" /\ pc # "bas"

\* C19: whatever load_only is, once load is past the discretization step
\* the first loader invoked was that of the first DIS or DISU entry, and once
\* it is past the BAS6 step of a name file with BAS6 the second loader
\* invoked was that of the first BAS6 entry.  Every later invocation is for
\* an entry whose file type load_only admits, and when load has returned
\* every other registered entry of an admitted file type except DIS had its
\* loader invoked.
C19_StructuralEntriesIgnoreLoadOnly ==
    /\ (PastDis /\ DisUnits # {})
       => Len(calls) >= 1 /\ calls[1].unit = FirstDisUnit
    /\ (PastBas /\ BasUnits # {})
       => Len(calls) >= 2 /\ calls[2].unit = FirstBasUnit
    /\ \A i \in DOMAIN calls :
          i > NStructural
          => \/ load_only_arg.none
             \/ nam[calls[i].unit].filetype \in RequestedTypes
    /\ Done =>
          \A k \in Units :
             (/\ ~StructuralEntry(k)
              /\ HasPackage(nam[k].filetype)
              /\ nam[k].filetype # "DIS"
              /\ load_only_arg.none \/ nam[k].filetype \in RequestedTypes)
             => Called(k)

\* load has returned for a load_only that names neither a discretization
\* type nor BAS6: the first DIS and the first BAS6 entry were loaded, then a
\* requested entry.
C19_Witness ==
    /\ Done
    /\ ~load_only_arg.none
    /\ RequestedTypes \cap {"DIS", "DISU", "BAS6"} = {}
    /\ BasUnits # {}
    /\ Len(calls) >= 3
    /\ calls[1].unit = FirstDisUnit
    /\ calls[2].unit = FirstBasUnit

(***************************************************************************)
(* The check argument of the loaders.                                      *)
(***************************************************************************)
\* Number of invocations of the loader of unit k.
NCalls(k) == Cardinality({i \in DOMAIN calls : calls[i].unit = k})

\* C20: a loader that took the argument check is invoked once: there is no
\* second invocation without check for it, and with forgive=True, when its
\* invocation failed, the entry is in files_not_loaded and load_fail is set.
\* The except TypeError clause of the dispatch loop violates it.
C20_AcceptingLoaderInvokedOnce ==
    \A k \in takes_check :
       /\ NCalls(k) = 1
       /\ (forgive /\ \E i \in DOMAIN calls :
                          calls[i].unit = k /\ calls[i].check /\ ~calls[i].ok)
          => load_fail /\ InList(k, files_not_loaded)

(***************************************************************************)
(* The version of the model.                                               *)
(***************************************************************************)
\* The version a file type tells, "" for a file type that tells none.
VersionOf(filetype) ==
    CASE filetype \in {"NWT", "UPW"} -> "mfnwt"
      [] filetype = "GLO" -> "mf2k"
      [] filetype \in {"SMS", "DISU"} -> "mfusg"
      [] OTHER -> ""

\* The entries of the name file that tell a version, and the last of them.
VersionUnits == {k \in Units : VersionOf(nam[k].filetype) # ""}
LastVersionUnit == CHOOSE k \in VersionUnits : \A j \in VersionUnits : j <= k

\* C18: until the version pass has run no loader has been invoked and the
\* model has the version load was called with; from then on the version of
\* the model is the one told by the last entry of the name file that tells
\* one (NWT, UPW: mfnwt; GLO: mf2k; SMS, DISU: mfusg), or the version load
\* was called with when no entry tells one.
C18_VersionPassBeforeLoaders ==
    /\ pc = "version" => calls = <<>> /\ version = version_arg
    /\ pc # "version"
       => version = IF VersionUnits = {} THEN version_arg
                    ELSE VersionOf(nam[LastVersionUnit].filetype)

\* A loader has been invoked for a name file in which two entries tell
\* different versions, neither of them the one load was called with.
C18_Witness ==
    /\ calls # <<>>
    /\ \E j \in VersionUnits :
          /\ j < LastVersionUnit
          /\ VersionOf(nam[j].filetype) # VersionOf(nam[LastVersionUnit].filetype)
          /\ VersionOf(nam[j].filetype) # version_arg
    /\ version # version_arg

(***************************************************************************)
(* The free format sniff.                                                  *)
(***************************************************************************)
\* C15: from the end of the sniff until the BAS6 loader is invoked the
\* handle of the BAS6 entry is at the position it had before the sniff, the
\* start of the file, whatever the file holds; and a sniff that has begun
\* comes to its end.
C15_SniffRestoresPosition ==
    /\ [](pc \in {"dis", "bas"} => bas_pos = 0)
    /\ (pc = "sniff" ~> pc = "dis")

\* The sniff of a file of at least two lines, all of them comments, has
\* ended: it read to the end of the file and the handle is back at the start.
C15_Witness ==
    /\ pc = "dis"
    /\ bas_key # None
    /\ Len(bas_lines) >= 2
    /\ \A i \in DOMAIN bas_lines : StartsWithHash(bas_lines[i])
    /\ line = ""
    /\ bas_pos = 0

(***************************************************************************)
(* The free format flag of the model.                                      *)
(***************************************************************************)
\* C16: a call of set_ifrefm with a value that is no boolean raises
\* nothing, returns False and changes neither array_free_format nor the
\* ifrefm of the BAS6 package.
C16_NonBooleanRejected ==
    [][(op' = "set" /\ value' \notin {"True", "False"})
       => /\ ret' = "False"
          /\ array_free_format' = array_free_format
          /\ bas_ifrefm' = bas_ifrefm
          /\ err' = "none" /\ pc' = "done"]_vars

\* set_ifrefm has been called with a value that is no boolean on a model
\* whose BAS6 package and array_free_format differ.
C16_Witness ==
    /\ op = "set"
    /\ value = "1"
    /\ ret = "False"
    /\ HasBas
    /\ array_free_format = "True" /\ bas_ifrefm = "False"

\* C17 as stated: after a call of set_ifrefm with a boolean, or of
\* get_ifrefm after it, with or without BAS6 package, get_ifrefm returns
\* array_free_format and the value set.  A model without BAS6 package
\* violates it.
C17_Original ==
    (op \in {"set", "get"} /\ value \in {"True", "False"})
    => /\ get_ifrefm = array_free_format
       /\ get_ifrefm = value
       /\ op = "get" => ret = value

\* C17: after a call of set_ifrefm with a boolean, and after calls of
\* get_ifrefm that follow it, array_free_format is the value set; with a
\* BAS6 package get_ifrefm returns that value too; without BAS6 package
\* get_ifrefm returns False, whatever was set.
C17_GetterMirrorsSetterWithBas ==
    /\ (op \in {"set", "get"} /\ value \in {"True", "False"})
       => /\ array_free_format = value
          /\ HasBas => get_ifrefm = value
          /\ (HasBas /\ op = "get") => ret = value
    /\ ~HasBas => /\ get_ifrefm = "False"
                  /\ op = "get" => ret = "False"

\* get_ifrefm has returned False after set_ifrefm(False) on a model with
\* BAS6 package.
C17_Witness ==
    /\ op = "get"
    /\ HasBas
    /\ value = "False"
    /\ ret = "False"
    /\ array_free_format = "False"

(***************************************************************************)
(* Strict and forgiving mode.                                              *)
(***************************************************************************)
\* The entries the dispatch loop hands to a loader, in dictionary order.
DispatchedUnits ==
    {k \in Units :
        /\ HasPackage(nam[k].filetype)
        /\ nam[k].filetype # "DIS"
        /\ ~StructuralEntry(k)
        /\ load_only_arg.none \/ nam[k].filetype \in RequestedTypes}

\* No invocation of a loader has failed.
NoLoaderFailed == \A i \in DOMAIN calls : calls[i].ok

\* C21: a load in which no loader invocation failed runs the same in both
\* modes.  Whatever forgive is, every loader that has the parameter check
\* was invoked once and with check=False; and when load has returned,
\* load_fail is false, files_succesfully_loaded holds the structural
\* entries and the dispatched entries in the order of their invocation, and
\* no dispatched entry is in files_not_loaded.  The strict branch of the
\* dispatch loop, which never passes check, violates it.
C21_ModesInvokeAlike ==
    NoLoaderFailed
    => /\ \A i \in DOMAIN calls :
             calls[i].unit \in takes_check => calls[i].check
       /\ \A k \in takes_check : NCalls(k) = 1
       /\ Done => /\ ~load_fail
                  /\ \A k \in DispatchedUnits :
                        /\ InList(k, files_succesfully_loaded)
                        /\ ~InList(k, files_not_loaded)

(***************************************************************************)
(* load_fail and the report lists.                                         *)
(***************************************************************************)
\* Invocation i is the call with check=False of a loader that has no
\* parameter check: the TypeError comes from the call, the loader did not
\* run.
NotRun(i) == calls[i].check /\ ~calls[i].ok /\ calls[i].unit \notin takes_check

\* An invocation of the loader of a non-structural entry failed.
InvocationFailed ==
    \E i \in DOMAIN calls :
       ~calls[i].ok /\ ~NotRun(i) /\ ~Structural(calls[i].unit)

\* C22: when load has returned, load_fail is set exactly when an invocation
\* of the loader of a non-structural entry failed, and with forgive=False it
\* is not set.  The retry after a TypeError raised inside a loader violates
\* it: the first invocation failed, the second returned, load_fail is not
\* set.
C22_LoadFailIffInvocationFailed ==
    Done => /\ load_fail <=> InvocationFailed
            /\ ~forgive => ~load_fail

\* How often unit k is in list.
Count(k, list) == Cardinality({i \in DOMAIN list : list[i] = k})

\* The invocations that returned, in the order they were made.
ReturnedCalls == SelectSeq(calls, LAMBDA c : c.ok)

\* C23: no unit is ever twice in the two report lists together.  When load
\* has returned, every entry with a registered package is once in exactly
\* one of them: in files_succesfully_loaded when an invocation of its loader
\* returned, in files_not_loaded otherwise; and files_succesfully_loaded
\* lists the entries in the order in which their loaders returned.
C23_EntriesReportedOnce ==
    /\ \A k \in Units :
          Count(k, files_succesfully_loaded) + Count(k, files_not_loaded) <= 1
    /\ Done =>
          /\ \A k \in Units :
                HasPackage(nam[k].filetype)
                => /\ Count(k, files_succesfully_loaded)
                        + Count(k, files_not_loaded) = 1
                   /\ InList(k, files_succesfully_loaded)
                        <=> \E i \in DOMAIN calls :
                               calls[i].unit = k /\ calls[i].ok
          /\ Len(files_succesfully_loaded) = Len(ReturnedCalls)
          /\ \A i \in DOMAIN files_succesfully_loaded :
                files_succesfully_loaded[i] = ReturnedCalls[i].unit

\* load has returned with an entry whose loader failed in files_not_loaded
\* and with the discretization and one more entry in
\* files_succesfully_loaded.
C23_Witness ==
    /\ Done
    /\ \E k \in Units : FinalFailed(k) /\ InList(k, files_not_loaded)
    /\ Len(files_succesfully_loaded) >= 2

(***************************************************************************)
(* The version pass and the rules of the constructor.                      *)
(***************************************************************************)
\* C24: a model that is not structured is an mfusg model, also after the
\* version pass.  A DISU entry followed by an entry that tells another
\* version violates it.
C24_UnstructuredIsMfusg == ~structured => version = "mfusg"

\* The model has the attribute glo: the constructor creates ModflowGlobal
\* when the version it is called with is mf2k, and nothing else creates it.
HasGlo == version_arg = "mf2k"

\* _set_name and write_name_file read self.glo when self.version is mf2k.
ReadsGlo == version = "mf2k"

\* C25: a model whose version is mf2k has its glo package, so that
\* _set_name and write_name_file find self.glo whenever they read it.  A
\* load that is called with another version and finds a GLO entry
\* violates it.
C25_Mf2kModelHasGlo == ReadsGlo => HasGlo

====
